---- MODULE Spec2Model ----
(***************************************************************************)
(* Bankroll ledger and stake sizing of GREEZBOT.                           *)
(*                                                                         *)
(* Three programs work on a ledger document:                               *)
(*   - poly-bet.js          the command-line ledger (streak-table sizing), *)
(*   - betd.js              the HTTP daemon (ledger + Kelly sizing),       *)
(*   - staking-policy.js    the Kelly sizing function used by the daemon.  *)
(*                                                                         *)
(* JavaScript numbers are modelled as exact rationals <<num, den>> with    *)
(* den > 0 in lowest terms; <<0,0>> is NaN (also what Number(undefined)    *)
(* gives), <<1,0>> and <<-1,0>> are the infinities.  Money is in currency  *)
(* units (100 == <<100,1>>), so a cent is <<1,100>>.  Binary floating      *)
(* point error is not modelled: arithmetic is exact, roundings are the     *)
(* decimal roundings the code asks for.  Timestamps (ts, at, createdAt)    *)
(* and the display-only currency are left out of the documents.            *)
(***************************************************************************)
EXTENDS Integers, Sequences, FiniteSets, TLC

VARIABLES prog, today, s, file, DEFAULT_STATE, last, inflight

vars == <<prog, today, s, file, DEFAULT_STATE, last, inflight>>

(***************************************************************************)
(* Bounds of the model.                                                    *)
(***************************************************************************)
MaxResults == 3
MaxPosted == 2
MaxDay == 1

(***************************************************************************)
(* JavaScript numbers.                                                     *)
(***************************************************************************)
Abs(x) == IF x < 0 THEN -x ELSE x
Sign(x) == IF x < 0 THEN -1 ELSE IF x > 0 THEN 1 ELSE 0

RECURSIVE GCD(_, _)
GCD(a, b) == IF b = 0 THEN a ELSE GCD(b, a % b)

Q(n, d) ==
  IF d = 0 THEN <<Sign(n), 0>>
  ELSE LET g == GCD(Abs(n), Abs(d))
           sg == IF d < 0 THEN -1 ELSE 1
       IN <<(sg * n) \div g, (sg * d) \div g>>

R(n) == <<n, 1>>
Zero == <<0, 1>>
One == <<1, 1>>
NaN == <<0, 0>>
Undefined == NaN
Null == [null |-> TRUE]

IsFinite(a) == a[2] # 0
Truthy(a) == a[2] # 0 /\ a[1] # 0
\* Operands are reduced against each other before multiplying, so that the
\* intermediate products stay small.
Add(a, b) ==
  IF IsFinite(a) /\ IsFinite(b)
  THEN LET g == GCD(a[2], b[2])
       IN Q(a[1] * (b[2] \div g) + b[1] * (a[2] \div g), (a[2] \div g) * b[2])
  ELSE NaN
Neg(a) == <<-a[1], a[2]>>
Sub(a, b) == Add(a, Neg(b))
Mul(a, b) ==
  IF IsFinite(a) /\ IsFinite(b)
  THEN LET x == Q(a[1], b[2])
           y == Q(b[1], a[2])
       IN Q(x[1] * y[1], x[2] * y[2])
  ELSE NaN
Div(a, b) ==
  IF ~(IsFinite(a) /\ IsFinite(b)) THEN NaN
  ELSE IF b[1] = 0 THEN <<Sign(a[1]), 0>>
  ELSE Mul(a, Q(b[2], b[1]))
Cmp(a, b) ==
  LET g == GCD(a[2], b[2])
  IN a[1] * (b[2] \div g) - b[1] * (a[2] \div g)
Lt(a, b) == IsFinite(a) /\ IsFinite(b) /\ Cmp(a, b) < 0
Le(a, b) == IsFinite(a) /\ IsFinite(b) /\ Cmp(a, b) <= 0
Gt(a, b) == Lt(b, a)
Ge(a, b) == Le(b, a)
Min(a, b) == IF Lt(b, a) THEN b ELSE a
Max(a, b) == IF Gt(b, a) THEN b ELSE a

\* Math.round(x): the nearest integer, halves towards +Infinity.
MathRound(a) == IF IsFinite(a) THEN R((2 * a[1] + a[2]) \div (2 * a[2])) ELSE a
\* Math.round(x * 100) / 100
RoundCents(a) == Div(MathRound(Mul(a, R(100))), R(100))
\* Number(x.toFixed(k)), scale = 10^k: the nearest multiple of 1/scale, halves away from zero.
ToFixed(a, scale) ==
  IF ~IsFinite(a) THEN a
  ELSE LET m == Mul(a, R(scale))
           h == (2 * Abs(m[1]) + m[2]) \div (2 * m[2])
       IN Div(R(Sign(m[1]) * h), R(scale))

(***************************************************************************)
(* poly-bet.js: the command-line ledger.                                   *)
(***************************************************************************)
defaultConfig ==
  [ bankroll |-> R(1000), baseKelly |-> Q(7, 100), odds |-> Q(19, 10), window |-> 5,
    aggression |-> [w \in 0..5 |-> CASE w \in {0, 1, 2} -> Q(1, 2)
                                      [] w = 3 -> One
                                      [] w = 4 -> Q(5, 4)
                                      [] w = 5 -> Q(3, 2)],
    maxFraction |-> Q(13, 100), minFraction |-> Q(2, 100),
    hotBonusOnPureStreak |-> Q(7, 4), drawdownPause |-> Q(15, 100),
    dailyExposureCap |-> Q(20, 100) ]

\* toNum(x, d): the default when x is missing or not a number.
toNum(x, dflt) == IF x = Undefined THEN dflt ELSE x

freshState(k) ==
  [ config |-> defaultConfig, bankroll |-> defaultConfig.bankroll,
    highWater |-> defaultConfig.bankroll, paused |-> FALSE, pauseReason |-> "null",
    exposureToday |-> Zero, exposureDayAnchor |-> k, results |-> <<>>,
    pendingStake |-> Null ]

\* the `init` command: a fresh state with the command line's overrides.
initState(k, bankrollArg, oddsArg, baseKellyArg) ==
  LET f == freshState(k)
      b == toNum(bankrollArg, R(1000))
  IN [f EXCEPT !.config.baseKelly = toNum(baseKellyArg, Q(7, 100)),
               !.config.odds = toNum(oddsArg, Q(19, 10)),
               !.bankroll = b, !.highWater = b]

\* the rollover that also restarts the high-water mark at the bankroll.
ensureDayExposureBucketRebasing(st, k) ==
  IF st.exposureDayAnchor # k
  THEN [st EXCEPT !.exposureDayAnchor = k, !.exposureToday = Zero, !.highWater = st.bankroll]
  ELSE st

ensureDayExposureBucket(st, k) ==
  IF st.exposureDayAnchor # k
  THEN [st EXCEPT !.exposureDayAnchor = k, !.exposureToday = Zero]
  ELSE st

Take(seq, n) == SubSeq(seq, 1, IF n < Len(seq) THEN n ELSE Len(seq))

RECURSIVE CountWins(_)
CountWins(seq) ==
  IF seq = <<>> THEN 0
  ELSE (IF Head(seq).result = "W" THEN 1 ELSE 0) + CountWins(Tail(seq))

RECURSIVE LeadingWins(_)
LeadingWins(seq) ==
  IF seq = <<>> \/ Head(seq).result # "W" THEN 0 ELSE 1 + LeadingWins(Tail(seq))

\* the count stopped at the first result that is not a win.
recentWinsLeading(st, n) == LeadingWins(Take(st.results, n))

\* s.results.slice(0, n).filter(r => r.result === 'W').length
recentWins(st, n) == CountWins(Take(st.results, n))

\* c.aggression[String(Math.min(wins, c.window))] ?? 1.0
aggressionFor(c, wins) ==
  LET idx == IF wins < c.window THEN wins ELSE c.window
  IN IF idx \in DOMAIN c.aggression THEN c.aggression[idx] ELSE One

\* pure ? c.hotBonusOnPureStreak : 1
hotBonus(c, wins) == IF wins = c.window THEN c.hotBonusOnPureStreak ELSE One

\* the fraction left as computed, without the clamp.
stakeFractionUnclamped(c, mult, hot) == Mul(Mul(c.baseKelly, mult), hot)

\* frac = clamp(c.baseKelly * mult * hot, c.minFraction, c.maxFraction)
stakeFraction(c, mult, hot) ==
  Min(c.maxFraction, Max(c.minFraction, Mul(Mul(c.baseKelly, mult), hot)))

\* the allowance that forgets what the day has already staked.
remainingExposureIgnoringSpent(st) ==
  LET dayStart == IF Truthy(st.highWater)
                  THEN Min(st.highWater, Div(st.bankroll, Sub(One, st.config.drawdownPause)))
                  ELSE st.bankroll
  IN Max(Zero, Mul(dayStart, st.config.dailyExposureCap))

\* remain = max(0, dayStart * c.dailyExposureCap - s.exposureToday)
remainingExposure(st) ==
  LET dayStart == IF Truthy(st.highWater)
                  THEN Min(st.highWater, Div(st.bankroll, Sub(One, st.config.drawdownPause)))
                  ELSE st.bankroll
  IN Max(Zero, Sub(Mul(dayStart, st.config.dailyExposureCap), st.exposureToday))

\* the plan returned for a rounded stake
stakePlan(st, odds, wins, applied, stake) ==
  [ plan |-> [paused |-> FALSE, stake |-> stake, fraction |-> Div(stake, st.bankroll),
              winsInWindow |-> wins, pureStreak |-> (wins = st.config.window),
              odds |-> IF Truthy(odds) THEN odds ELSE st.config.odds,
              appliedMultiplier |-> ToFixed(applied, 100)],
    s |-> st ]

\* the daily cap that refuses every stake above the remaining allowance.
capStakeRefusing(st, odds, wins, applied, raw, remain) ==
  IF Gt(raw, remain)
  THEN [plan |-> [paused |-> TRUE, reason |-> "Daily exposure cap hit."], s |-> st]
  ELSE stakePlan(st, odds, wins, applied, RoundCents(raw))

\* the daily cap on the stake s.bankroll * frac, and its rounding to cents
capStake(st, odds, wins, applied, raw, remain) ==
  IF Gt(raw, remain) /\ Le(remain, Zero)
  THEN [plan |-> [paused |-> TRUE, reason |-> "Daily exposure cap hit."], s |-> st]
  ELSE stakePlan(st, odds, wins, applied, RoundCents(IF Gt(raw, remain) THEN remain ELSE raw))

sizeStake(st, odds, wins, mult, hot) ==
  capStake(st, odds, wins, Mul(mult, hot),
           Mul(st.bankroll, stakeFraction(st.config, mult, hot)), remainingExposure(st))

planForWins(st, odds, wins) ==
  sizeStake(st, odds, wins, aggressionFor(st.config, wins), hotBonus(st.config, wins))

planOnDay(st, odds) == planForWins(st, odds, recentWins(st, st.config.window))

\* planStake(s, {odds}): the plan and the state as planStake leaves it.
planStake(st, odds, k) ==
  IF st.paused THEN [plan |-> [paused |-> TRUE, reason |-> st.pauseReason], s |-> st]
  ELSE planOnDay(ensureDayExposureBucket(st, k), odds)

\* Math.max(s.highWater, s.bankroll)
maxHighWater(highWater, bankroll) == Max(highWater, bankroll)

DrawdownReason(dd) == "Drawdown " \o ToString(MathRound(Mul(dd, R(100)))[1]) \o "%"

\* if (dd >= s.config.drawdownPause) { s.paused = true; s.pauseReason = ... }
pauseOnDrawdown(st, dd) ==
  IF Ge(dd, st.config.drawdownPause)
  THEN [st EXCEPT !.paused = TRUE, !.pauseReason = DrawdownReason(dd)]
  ELSE st

drawdownCheck(st) == pauseOnDrawdown(st, Div(Sub(st.highWater, st.bankroll), st.highWater))

\* the ledger after the bet is booked at the new bankroll
bookResult(st, result, stake, o, pnl, bankroll) ==
  drawdownCheck(
    [st EXCEPT !.exposureToday = Add(st.exposureToday, stake),
               !.bankroll = bankroll,
               !.highWater = maxHighWater(st.highWater, bankroll),
               !.results = <<[result |-> result, stake |-> stake, odds |-> o,
                              pnl |-> RoundCents(pnl), bankrollAfter |-> bankroll]>>
                           \o st.results,
               !.pendingStake = Null])

settle(st, result, stake, o, pnl) ==
  bookResult(st, result, stake, o, pnl, RoundCents(Add(st.bankroll, pnl)))

settleAtOdds(st, result, stake, o) ==
  settle(st, result, stake, o, IF result = "W" THEN Mul(stake, Sub(o, One)) ELSE Neg(stake))

\* applyResult once the plan is known: pr is [plan, s]
applyPlan(pr, result, odds) ==
  IF pr.plan.paused THEN pr.s
  ELSE settleAtOdds(pr.s, result, pr.plan.stake,
                    IF IsFinite(odds) THEN odds ELSE pr.s.config.odds)

applyResult(st, result, odds, k) ==
  IF st.paused THEN st
  ELSE applyPlan(IF st.pendingStake # Null THEN [plan |-> st.pendingStake, s |-> st]
                 ELSE planStake(st, odds, k),
                 result, odds)

(***************************************************************************)
(* staking-policy.js: Kelly sizing with hot/cold streak multipliers.       *)
(* An element of a results array is a JavaScript value: the string 'W' is  *)
(* [str |-> "W"], an object is a record of its fields.                     *)
(***************************************************************************)
CFG ==
  [ baseUnit |-> Q(1, 10), minStake |-> Q(1, 10), maxStakePct |-> Q(2, 100),
    kellyFraction |-> Q(1, 4), defaultEdge |-> Q(2, 100),
    hotStreak |-> [wins |-> 3, boost |-> Q(12, 10)],
    coldStreak |-> [losses |-> 2, cut |-> Q(7, 10)] ]

kellyFractionDecimalOdds(p, b) ==
  LET q == Sub(One, p)
      f == Div(Sub(Mul(b, p), q), b)
  IN Max(Zero, f)

\* r === 'W' (strict equality with a string)
IsTheString(r, str) == DOMAIN r = {"str"} /\ r.str = str

RECURSIVE streakLoop(_, _, _)
streakLoop(results, w, l) ==
  IF results = <<>> THEN [wins |-> w, losses |-> l]
  ELSE LET r == Head(results)
       IN IF IsTheString(r, "W")
          THEN IF l > 0 THEN [wins |-> w, losses |-> l] ELSE streakLoop(Tail(results), w + 1, l)
          ELSE IF IsTheString(r, "L")
          THEN IF w > 0 THEN [wins |-> w, losses |-> l] ELSE streakLoop(Tail(results), w, l + 1)
          ELSE [wins |-> w, losses |-> l]

streakInfo(results) == streakLoop(results, 0, 0)

\* the clamp without its cap: only the floor is applied.
clampStakeNoCap(stake, cap) == IF Lt(stake, CFG.minStake) THEN CFG.minStake ELSE stake

\* if (stake > cap) stake = cap;  if (stake < CFG.minStake) stake = CFG.minStake
clampStake(stake, cap) ==
  LET capped == IF Gt(stake, cap) THEN cap ELSE stake
  IN IF Lt(capped, CFG.minStake) THEN CFG.minStake ELSE capped

\* p = Math.min(0.99, Math.max(0.01, 1 / odds + (edge ?? CFG.defaultEdge)))
winProbability(odds, edge) ==
  Min(Q(99, 100), Max(Q(1, 100),
      Add(Div(One, odds), IF edge = Undefined THEN CFG.defaultEdge ELSE edge)))

\* baseStake = Math.max(CFG.minStake, CFG.baseUnit, bankroll * f)
baseStake(bankroll, p, b) ==
  Max(Max(CFG.minStake, CFG.baseUnit),
      Mul(bankroll, Min(Mul(kellyFractionDecimalOdds(p, b), CFG.kellyFraction), CFG.maxStakePct)))

\* the hot/cold multiplier of a streak
streakMultiplier(run) ==
  Mul(IF run.wins >= CFG.hotStreak.wins THEN CFG.hotStreak.boost ELSE One,
      IF run.losses >= CFG.coldStreak.losses THEN CFG.coldStreak.cut ELSE One)

streakNotes(run) ==
  (IF run.wins >= CFG.hotStreak.wins THEN <<"hot">> ELSE <<>>)
  \o (IF run.losses >= CFG.coldStreak.losses THEN <<"cold">> ELSE <<>>)

clampNotes(stake, cap) ==
  (IF Gt(stake, cap) THEN <<"cap">> ELSE <<>>)
  \o (IF Lt(IF Gt(stake, cap) THEN cap ELSE stake, CFG.minStake) THEN <<"floor">> ELSE <<>>)

kellyPlan(bankroll, stake, mult, notes) ==
  [stake |-> stake, fraction |-> Div(stake, bankroll), appliedMultiplier |-> mult, notes |-> notes]

\* stake *= mult, the clamp, the rounding to cents
kellyStake(bankroll, run, boosted, cap) ==
  kellyPlan(bankroll, Max(CFG.baseUnit, RoundCents(clampStake(boosted, cap))),
            streakMultiplier(run), streakNotes(run) \o clampNotes(boosted, cap))

kellySized(bankroll, base, run) ==
  kellyStake(bankroll, run, Mul(base, streakMultiplier(run)), Mul(bankroll, CFG.maxStakePct))

\* planStake(bankroll, odds, edge, state) of staking-policy.js; `results` is
\* (state || loadState()).results || [].
planStakeKelly(bankroll, odds, edge, results) ==
  kellySized(bankroll,
             baseStake(bankroll, winProbability(odds, edge), Sub(Max(Q(10001, 10000), odds), One)),
             streakInfo(results))

(***************************************************************************)
(* betd.js: the daemon.  `file` is poly-state.json: [present |-> FALSE]    *)
(* when it does not exist, else [present |-> TRUE, doc |-> the document].  *)
(* DEFAULT_STATE is the module-level object; loadState's fallback returns  *)
(* a shallow copy of it, whose results array and stats object are the      *)
(* DEFAULT_STATE's own.                                                    *)
(***************************************************************************)
DefaultState ==
  [ bankroll |-> R(100), highWater |-> R(100), paused |-> FALSE, pauseReason |-> "",
    oddsBand |-> [min |-> Q(18, 10), max |-> Q(22, 10)], planned |-> Null,
    results |-> <<>>, stats |-> [wins |-> 0, losses |-> 0] ]

\* JSON.stringify writes a non-finite number as null.  Only a freshly made
\* plan can hold one (fraction = stake / 0); every other number of a state has
\* been parsed from JSON or is finite, and is written back as it is.
JsonNumber(x) == IF IsFinite(x) THEN x ELSE Null
JsonPlanned(planned) == [planned EXCEPT !.fraction = JsonNumber(planned.fraction)]

saveState(st) == [present |-> TRUE, doc |-> st]

\* loadState(): the state, whether its results/stats are DEFAULT_STATE's own
\* objects, and the file as loadState leaves it.
\* Object.assign({}, a, b): the keys of both, b's value where both have one.
Assign(a, b) ==
  [k \in DOMAIN a \cup DOMAIN b |-> IF k \in DOMAIN b THEN b[k] ELSE a[k]]

\* loadState() when the defaults and the parsed document are merged the other
\* way round (the document first, the defaults over it).
loadStateDefaultsLast(f, dflt) ==
  IF f.present
  THEN [state |-> Assign(f.doc, dflt), aliased |-> TRUE, file |-> f]
  ELSE [state |-> dflt, aliased |-> TRUE, file |-> saveState(dflt)]

loadState(f, dflt) ==
  IF f.present
  THEN [state |-> [Assign(dflt, f.doc) EXCEPT !.oddsBand = Assign(dflt.oddsBand, f.doc.oddsBand)],
        aliased |-> ~({"results", "stats"} \subseteq DOMAIN f.doc), file |-> f]
  ELSE [state |-> dflt, aliased |-> TRUE, file |-> saveState(dflt)]

\* loadState() of staking-policy.js, on the same file.
policyLoadState(f) ==
  IF f.present THEN f.doc ELSE [bankroll |-> R(100), results |-> <<>>]

RECURSIVE streakRun(_, _, _)
streakRun(results, wins, losses) ==
  IF results = <<>> THEN [wins |-> wins, losses |-> losses]
  ELSE LET r == Head(results)
       IN IF "result" \in DOMAIN r /\ r.result = "W"
          THEN IF losses # 0 THEN [wins |-> wins, losses |-> losses]
               ELSE streakRun(Tail(results), wins + 1, losses)
          ELSE IF "result" \in DOMAIN r /\ r.result = "L"
          THEN IF wins # 0 THEN [wins |-> wins, losses |-> losses]
               ELSE streakRun(Tail(results), wins, losses + 1)
          ELSE [wins |-> wins, losses |-> losses]

streak(results) == streakRun(results, 0, 0)

\* the lower end of the band taken for its middle.
MidpointAtMin(band) == band.min

Midpoint(band) == Div(Add(band.min, band.max), R(2))

PausedReason(st) == IF st.pauseReason # "" THEN st.pauseReason ELSE "Paused"

\* state.planned = { ...plan, odds: o }; saveState(state); return { ...plan, odds: o }
storePlanned(st, planned) ==
  [out |-> planned, state |-> [st EXCEPT !.planned = planned],
   file |-> saveState([st EXCEPT !.planned = JsonPlanned(planned)])]

planAtOdds(st, o, f) ==
  storePlanned(st, [odds |-> o] @@ planStakeKelly(st.bankroll, o, Undefined, policyLoadState(f).results))

\* doPlan(state, odds): what it returns, the state and the file after it.
doPlan(st, odds, f) ==
  IF st.paused
  THEN [out |-> [paused |-> TRUE, reason |-> PausedReason(st), stake |-> Zero,
                 fraction |-> Zero, appliedMultiplier |-> Zero, odds |-> odds],
        state |-> st, file |-> f]
  ELSE planAtOdds(st, IF Truthy(odds) THEN odds ELSE Midpoint(st.oddsBand), f)

doExecute(st) ==
  IF st.paused THEN [paused |-> TRUE, reason |-> PausedReason(st)]
  ELSE IF st.planned = Null THEN [error |-> "Nothing planned. Use /plan first."]
  ELSE [order |-> "paper", planned |-> st.planned]

\* the result string taken as it was sent.
toUpperCaseSkipped(str) == str

\* String(body.result || '').toUpperCase() on the strings the model sends.
toUpperCase(str) == CASE str = "w" -> "W" [] str = "l" -> "L" [] OTHER -> str

\* the high-water mark set to the bankroll, whichever is larger.
raiseHighWaterAlways(highWater, bankroll) == bankroll

\* if (state.bankroll > state.highWater) state.highWater = state.bankroll
raiseHighWater(highWater, bankroll) == IF Gt(bankroll, highWater) THEN bankroll ELSE highWater

\* Number(state?.planned?.field)
PlannedNumber(st, field) == IF st.planned = Null THEN Undefined ELSE st.planned[field]

\* Number(body.odds) || Number(state?.planned?.odds) || midpoint of the band
resultOdds(st, body) ==
  IF Truthy(body.odds) THEN body.odds
  ELSE IF Truthy(PlannedNumber(st, "odds")) THEN PlannedNumber(st, "odds")
  ELSE Midpoint(st.oddsBand)

\* Number(state?.planned?.stake) || Number(body.stake) || 0.1
resultStake(st, body) ==
  IF Truthy(PlannedNumber(st, "stake")) THEN PlannedNumber(st, "stake")
  ELSE IF Truthy(body.stake) THEN body.stake
  ELSE Q(1, 10)

bumpStats(stats, res) ==
  IF res = "W" THEN [stats EXCEPT !.wins = @ + 1] ELSE [stats EXCEPT !.losses = @ + 1]

\* what doResult returns and saves for the state it has updated
resultSaved(st, entry) ==
  [out |-> [entry |-> entry, wins |-> st.stats.wins, losses |-> st.stats.losses],
   state |-> st, file |-> saveState(st)]

\* if (state.results.length > 5000) state.results.length = 5000
HistoryCap == 5000

\* the state update of doResult with the plan left in place.
recordEntryKeepingPlan(st, entry) ==
  resultSaved([st EXCEPT !.bankroll = entry.bankrollAfter,
                         !.highWater = raiseHighWater(st.highWater, entry.bankrollAfter),
                         !.results = Take(<<entry>> \o st.results, HistoryCap),
                         !.stats = bumpStats(st.stats, entry.result)],
              entry)

recordEntry(st, entry) ==
  resultSaved([st EXCEPT !.bankroll = entry.bankrollAfter,
                         !.highWater = raiseHighWater(st.highWater, entry.bankrollAfter),
                         !.results = Take(<<entry>> \o st.results, HistoryCap),
                         !.stats = bumpStats(st.stats, entry.result),
                         !.planned = Null],
              entry)

resultEntry(st, res, odds, stake, pnl) ==
  recordEntry(st, [result |-> res, stake |-> ToFixed(stake, 100), odds |-> ToFixed(odds, 1000),
                   pnl |-> ToFixed(pnl, 100),
                   bankrollAfter |-> Max(Zero, ToFixed(Add(st.bankroll, pnl), 100))])

resultPnl(st, res, odds, stake) ==
  resultEntry(st, res, odds, stake,
              IF res = "W" THEN Mul(stake, Sub(odds, One)) ELSE Neg(stake))

acceptResult(st, res, body, f) ==
  IF res # "W" /\ res # "L"
  THEN [out |-> [error |-> "result must be W or L"], state |-> st, file |-> f]
  ELSE resultPnl(st, res, resultOdds(st, body), resultStake(st, body))

doResult(st, body, f) == acceptResult(st, toUpperCase(body.result), body, f)

saved(out, st) == [out |-> out, state |-> st, file |-> saveState(st)]

doPause(st, reason) ==
  saved([paused |-> TRUE, reason |-> IF reason # "" THEN reason ELSE "Paused by user"],
        [st EXCEPT !.paused = TRUE,
                   !.pauseReason = IF reason # "" THEN reason ELSE "Paused by user"])

\* doResume that also drops the stored plan.
doResumeDroppingPlan(st) == saved([paused |-> FALSE], [st EXCEPT !.planned = Null, !.paused = FALSE, !.pauseReason = ""])

doResume(st) == saved([paused |-> FALSE], [st EXCEPT !.paused = FALSE, !.pauseReason = ""])

\* setOddsBand with the lower bound of min at 1 instead of 1.01.
setOddsBandFromOne(st, min, max, f) ==
  IF ~IsFinite(min) \/ ~IsFinite(max) \/ Lt(min, One) \/ Le(max, min)
  THEN [out |-> [error |-> "Bad odds band."], state |-> st, file |-> f]
  ELSE saved([min |-> min, max |-> max], [st EXCEPT !.oddsBand = [min |-> min, max |-> max]])

setOddsBand(st, min, max, f) ==
  IF ~IsFinite(min) \/ ~IsFinite(max) \/ Lt(min, Q(101, 100)) \/ Le(max, min)
  THEN [out |-> [error |-> "Bad odds band."], state |-> st, file |-> f]
  ELSE saved([min |-> min, max |-> max], [st EXCEPT !.oddsBand = [min |-> min, max |-> max]])

(***************************************************************************)
(* Command-line arguments tried by the model: --odds of `plan`, --odds of  *)
(* `win` / `loss` (any number is accepted), --bankroll of `init`.          *)
(***************************************************************************)
PlanOdds == {Undefined, Q(5, 2)}
ResultOdds == {Undefined, R(-30)}
CliBankrolls == {Undefined}

NoOut == [none |-> TRUE]

\* Before the first operation: the command-line ledger as `init` wrote it, no
\* daemon state file yet, the daemon's module-level defaults untouched.
InitCommon ==
  /\ today = 0
  /\ \E b \in CliBankrolls : s = initState(0, b, Undefined, Undefined)
  /\ file = [present |-> FALSE]
  /\ DEFAULT_STATE = DefaultState
  /\ last = [op |-> "start", out |-> NoOut]
  /\ inflight = {}

CliInit(bankrollArg) ==
  /\ prog = "cli"
  /\ s' = initState(today, bankrollArg, Undefined, Undefined)
  /\ last' = [op |-> "init", out |-> NoOut]
  /\ UNCHANGED <<prog, today, file, DEFAULT_STATE, inflight>>

CliReset ==
  /\ prog = "cli"
  /\ s' = freshState(today)
  /\ last' = [op |-> "reset", out |-> NoOut]
  /\ UNCHANGED <<prog, today, file, DEFAULT_STATE, inflight>>

\* if (!p.paused) s.pendingStake = p; saveState(s)
StorePlan(pr) ==
  /\ s' = IF pr.plan.paused THEN pr.s ELSE [pr.s EXCEPT !.pendingStake = pr.plan]
  /\ last' = [op |-> "plan", out |-> pr.plan]

CliPlan(odds) ==
  /\ prog = "cli"
  /\ StorePlan(planStake(s, toNum(odds, Undefined), today))
  /\ UNCHANGED <<prog, today, file, DEFAULT_STATE, inflight>>

CliResult(result, odds) ==
  /\ prog = "cli"
  /\ s' = applyResult(s, result, toNum(odds, Undefined), today)
  /\ last' = [op |-> "result", out |-> NoOut]
  /\ UNCHANGED <<prog, today, file, DEFAULT_STATE, inflight>>

CliWin(odds) == CliResult("W", odds)
CliLoss(odds) == CliResult("L", odds)

CliResume ==
  /\ prog = "cli"
  /\ s' = [s EXCEPT !.paused = FALSE, !.pauseReason = "null"]
  /\ last' = [op |-> "resume", out |-> NoOut]
  /\ UNCHANGED <<prog, today, file, DEFAULT_STATE, inflight>>

\* the calendar day (UTC) changes.
DayPasses ==
  /\ prog = "cli"
  /\ today < MaxDay
  /\ today' = today + 1
  /\ UNCHANGED <<prog, s, file, DEFAULT_STATE, last, inflight>>

CliNext ==
  \/ \E b \in CliBankrolls : CliInit(b)
  \/ CliReset
  \/ \E o \in PlanOdds : CliPlan(o)
  \/ \E o \in ResultOdds : Len(s.results) < MaxResults /\ CliWin(o)
  \/ \E o \in ResultOdds : Len(s.results) < MaxResults /\ CliLoss(o)
  \/ CliResume
  \/ DayPasses

(***************************************************************************)
(* The command-line ledger run with default odds only, for long histories. *)
(***************************************************************************)
MaxHistory == 6

InitStreak == prog = "cli" /\ InitCommon

StreakNext ==
  \/ CliPlan(Undefined)
  \/ Len(s.results) < MaxHistory /\ CliWin(Undefined)
  \/ Len(s.results) < MaxHistory /\ CliLoss(Undefined)
  \/ CliResume
  \/ DayPasses

SpecStreak == InitStreak /\ [][StreakNext]_vars

(***************************************************************************)
(* Requests sent to the daemon by the model.  Each request is handled as   *)
(* one step here: loadState(), the operation, its saveState().             *)
(***************************************************************************)
BodyOdds == {Undefined, Q(3, 2)}
\* request bodies of POST /result: {result, odds, stake}
Bodies ==
  { [result |-> "W", odds |-> Undefined, stake |-> Undefined],
    [result |-> "w", odds |-> Q(3, 2), stake |-> Undefined],
    [result |-> "L", odds |-> Undefined, stake |-> Undefined],
    [result |-> "L", odds |-> Q(3, 2), stake |-> R(200)],
    [result |-> "x", odds |-> Undefined, stake |-> Undefined] }
PauseReasons == {"", "manual"}
Bands == {<<R(1), R(2)>>, <<R(2), Q(3, 2)>>, <<Q(3, 2), R(3)>>}

\* What the request leaves of DEFAULT_STATE: a state that shares its results
\* and stats objects has them changed in place.
DefaultAfter(ld, st1) ==
  IF ld.aliased THEN [DEFAULT_STATE EXCEPT !.results = st1.results, !.stats = st1.stats]
  ELSE DEFAULT_STATE

Request(op, ld, r) ==
  /\ file' = r.file
  /\ DEFAULT_STATE' = DefaultAfter(ld, r.state)
  /\ last' = [op |-> op, out |-> r.out]
  /\ UNCHANGED <<prog, today, s, inflight>>

PlanLoaded(ld, odds) == Request("plan", ld, doPlan(ld.state, odds, ld.file))
ExecuteLoaded(ld) ==
  Request("execute", ld, [out |-> doExecute(ld.state), state |-> ld.state, file |-> ld.file])
ResultLoaded(ld, body) ==
  /\ Len(ld.state.results) < MaxPosted
  /\ Request("result", ld, doResult(ld.state, body, ld.file))
PauseLoaded(ld, reason) == Request("pause", ld, doPause(ld.state, reason))
ResumeLoaded(ld) == Request("resume", ld, doResume(ld.state))
OddsBandLoaded(ld, min, max) ==
  Request("oddsband", ld, setOddsBand(ld.state, min, max, ld.file))

PostPlan(odds) == prog = "betd" /\ PlanLoaded(loadState(file, DEFAULT_STATE), odds)
PostExecute == prog = "betd" /\ ExecuteLoaded(loadState(file, DEFAULT_STATE))
PostResult(body) == prog = "betd" /\ ResultLoaded(loadState(file, DEFAULT_STATE), body)
PostPause(reason) == prog = "betd" /\ PauseLoaded(loadState(file, DEFAULT_STATE), reason)
PostResume == prog = "betd" /\ ResumeLoaded(loadState(file, DEFAULT_STATE))
PostOddsBand(min, max) ==
  prog = "betd" /\ OddsBandLoaded(loadState(file, DEFAULT_STATE), min, max)

DaemonNext ==
  \/ \E o \in BodyOdds : PostPlan(o)
  \/ \E body \in Bodies : PostResult(body)
  \/ \E reason \in PauseReasons : PostPause(reason)
  \/ PostResume
  \/ PostExecute
  \/ \E band \in Bands : PostOddsBand(band[1], band[2])

(***************************************************************************)
(* The daemon asked for odds bands of many shapes, between plans.  1e999   *)
(* in a JSON body parses to Infinity; a missing min or max is undefined.   *)
(***************************************************************************)
BandValues == {Undefined, <<1, 0>>, R(1), Q(101, 100), Q(3, 2), R(2), R(3)}

InitBand == prog = "betd" /\ InitCommon

BandNext ==
  \/ \E min \in BandValues, max \in BandValues : PostOddsBand(min, max)
  \/ \E o \in BodyOdds : PostPlan(o)
  \/ PostExecute

SpecBand == InitBand /\ [][BandNext]_vars

(***************************************************************************)
(* The daemon with requests whose handling overlaps.  The handler runs     *)
(* loadState() when the request arrives, then awaits the request body      *)
(* (POST /plan, /result, /pause, /oddsband), and runs the operation on     *)
(* the state it loaded once the body has arrived; other handlers run in    *)
(* between.  POST /execute and /resume read no body and run in one step.   *)
(* inflight holds the requests that await their body, each with the state  *)
(* it loaded.                                                              *)
(***************************************************************************)
MaxInflight == 2
MaxRaced == 1

RaceRequests ==
  { [op |-> "result", body |-> [result |-> "W", odds |-> Undefined, stake |-> Undefined]],
    [op |-> "pause", reason |-> "manual"],
    [op |-> "oddsband", min |-> Q(3, 2), max |-> R(3)] }

Awaiting(id, req, ld) ==
  /\ file' = ld.file
  /\ inflight' = inflight \cup {[id |-> id, req |-> req, state |-> ld.state,
                                  aliased |-> ld.aliased]}
  /\ UNCHANGED <<prog, today, s, DEFAULT_STATE, last>>

\* const state = loadState(); ... await parseBody(req)
Arrive(id, req) ==
  /\ prog = "betd"
  /\ \A r \in inflight : r.id # id
  /\ \A other \in 1..(id - 1) : \E r \in inflight : r.id = other
  /\ Awaiting(id, req, loadState(file, DEFAULT_STATE))

\* the operation of a request on the state its handler loaded; f is the file now
handle(req, st, f) ==
  CASE req.op = "plan" -> doPlan(st, req.odds, f)
    [] req.op = "result" -> doResult(st, req.body, f)
    [] req.op = "pause" -> doPause(st, req.reason)
    [] req.op = "oddsband" -> setOddsBand(st, req.min, req.max, f)
    [] req.op = "resume" -> doResume(st)
    [] req.op = "execute" -> [out |-> doExecute(st), state |-> st, file |-> f]

Responded(r, done) ==
  /\ file' = done.file
  /\ DEFAULT_STATE' = DefaultAfter(r, done.state)
  /\ last' = [op |-> r.req.op, out |-> done.out]
  /\ inflight' = inflight \ {r}
  /\ UNCHANGED <<prog, today, s>>

\* the body has arrived: sendJson(res, ..., doX(state, b...))
Respond(r) ==
  /\ prog = "betd"
  /\ r.req.op = "result" => Len(r.state.results) < MaxRaced
  /\ Responded(r, handle(r.req, r.state, file))

InitRace == prog = "betd" /\ InitCommon

RaceNext ==
  \/ \E id \in 1..MaxInflight, req \in RaceRequests : Arrive(id, req)
  \/ \E r \in inflight : Respond(r)
  \/ PostResume
  \/ PostExecute

SpecRace == InitRace /\ [][RaceNext]_vars

(***************************************************************************)
(* Both programs with a state file that can be missing or unparsable and   *)
(* with writes that can fail.  The command-line program starts with no     *)
(* state file.  For the daemon a file that is missing and a file that      *)
(* does not parse both end in loadState's catch, so both are a file that   *)
(* is not `present`.                                                       *)
(***************************************************************************)
MaxFaulted == 1

NoFile == [exists |-> FALSE]
Garbled == [garbled |-> TRUE]
Thrown(what) == [thrown |-> what]
NoStateError == [error |-> "No state. Run init first."]
IsLedger(doc) == "bankroll" \in DOMAIN doc

\* loadState() of poly-bet.js: null without a file, JSON.parse throws on a bad one
cliLoadState(doc) ==
  IF doc = NoFile THEN Null
  ELSE IF doc = Garbled THEN Thrown("SyntaxError")
  ELSE doc

CliCommands == {"plan", "result", "status", "resume", "reset"}

Unchanging(op, out) ==
  /\ last' = [op |-> op, out |-> out]
  /\ UNCHANGED <<prog, today, s, file, DEFAULT_STATE, inflight>>

\* if (!s) return console.error('No state. Run init first.')
CliNoState(cmd) == prog = "cli" /\ cliLoadState(s) = Null /\ Unchanging(cmd, NoStateError)

\* JSON.parse throws in loadState(); nothing catches it
CliUnparsable(cmd) ==
  /\ prog = "cli"
  /\ cliLoadState(s) = Thrown("SyntaxError")
  /\ Unchanging(cmd, cliLoadState(s))

\* fs.writeFileSync throws in saveState(); nothing catches it, the file stays
CliWriteFails(cmd) ==
  /\ prog = "cli"
  /\ cmd = "init" \/ IsLedger(cliLoadState(s))
  /\ Unchanging(cmd, Thrown("EACCES"))

\* the state file is deleted, or overwritten with something that is not JSON
FileLost ==
  /\ IF prog = "cli" THEN s # NoFile /\ s' = NoFile /\ file' = file
     ELSE file.present /\ file' = [present |-> FALSE] /\ s' = s
  /\ UNCHANGED <<prog, today, DEFAULT_STATE, last, inflight>>

FileGarbled ==
  /\ IF prog = "cli" THEN s # Garbled /\ s' = Garbled /\ file' = file
     ELSE file # [present |-> FALSE, garbled |-> TRUE]
          /\ file' = [present |-> FALSE, garbled |-> TRUE] /\ s' = s
  /\ UNCHANGED <<prog, today, DEFAULT_STATE, last, inflight>>

FaultRequests ==
  { [op |-> "plan", odds |-> Undefined],
    [op |-> "result", body |-> [result |-> "W", odds |-> Undefined, stake |-> Undefined]],
    [op |-> "pause", reason |-> "manual"],
    [op |-> "oddsband", min |-> Q(3, 2), max |-> R(3)],
    [op |-> "resume"],
    [op |-> "execute"] }

\* a request whose writes succeed
Serve(req, ld) ==
  /\ prog = "betd"
  /\ req.op = "result" => Len(ld.state.results) < MaxFaulted
  /\ Request(req.op, ld, handle(req, ld.state, ld.file))

\* what a request leaves when every fs.writeFileSync of it throws inside
\* saveState's try: the file as it was, the response as computed
Unsaved(op, ld, r) ==
  /\ file' = file
  /\ DEFAULT_STATE' = DefaultAfter(ld, r.state)
  /\ last' = [op |-> op, out |-> r.out]
  /\ UNCHANGED <<prog, today, s, inflight>>

ServeUnsaved(req, ld) ==
  /\ prog = "betd"
  /\ req.op = "result" => Len(ld.state.results) < MaxFaulted
  /\ Unsaved(req.op, ld, handle(req, ld.state, file))

InitFaults ==
  /\ prog \in {"cli", "betd"}
  /\ today = 0
  /\ s = NoFile
  /\ file = [present |-> FALSE]
  /\ DEFAULT_STATE = DefaultState
  /\ last = [op |-> "start", out |-> NoOut]
  /\ inflight = {}

FaultsNext ==
  \/ CliInit(Undefined)
  \/ IsLedger(s) /\ CliReset
  \/ IsLedger(s) /\ CliPlan(Undefined)
  \/ IsLedger(s) /\ Len(s.results) < MaxFaulted /\ CliWin(Undefined)
  \/ IsLedger(s) /\ Len(s.results) < MaxFaulted /\ CliLoss(Undefined)
  \/ IsLedger(s) /\ CliResume
  \/ \E cmd \in CliCommands : CliNoState(cmd)
  \/ \E cmd \in CliCommands : CliUnparsable(cmd)
  \/ \E cmd \in (CliCommands \ {"status"}) \cup {"init"} : CliWriteFails(cmd)
  \/ \E req \in FaultRequests : Serve(req, loadState(file, DEFAULT_STATE))
  \/ \E req \in FaultRequests : ServeUnsaved(req, loadState(file, DEFAULT_STATE))
  \/ FileLost
  \/ FileGarbled

SpecFaults == InitFaults /\ [][FaultsNext]_vars

(***************************************************************************)
(* Calls of staking-policy.js's exported planStake(bankroll, odds, edge,   *)
(* state) with an injected state whose results are 'W' / 'L' strings, most *)
(* recent first, as its streakInfo expects.                                *)
(***************************************************************************)
MaxStreak == 3
PolicyBankrolls == {Zero, Q(1, 20), R(3), R(5), Q(21, 4), R(100), R(1000)}
PolicyOdds == {Q(6, 5), Q(39, 20), R(2), R(5)}
PolicyEdges == {Undefined, Q(1, 10), Q(-1, 2)}
PolicyResults == UNION {[1..n -> {[str |-> "W"], [str |-> "L"]}] : n \in 0..MaxStreak}

\* one run of the process: a single call.
PolicyCall(bankroll, odds, edge, results) ==
  /\ prog = "policy"
  /\ last.op = "start"
  /\ last' = [op |-> "policy",
              args |-> [bankroll |-> bankroll, odds |-> odds, edge |-> edge, results |-> results],
              out |-> planStakeKelly(bankroll, odds, edge, results)]
  /\ UNCHANGED <<prog, today, s, file, DEFAULT_STATE, inflight>>

PolicyNext ==
  \E bankroll \in PolicyBankrolls, odds \in PolicyOdds, edge \in PolicyEdges,
     results \in PolicyResults : PolicyCall(bankroll, odds, edge, results)

InitPolicy == prog = "policy" /\ InitCommon

SpecPolicy == InitPolicy /\ [][PolicyNext]_vars

Init == prog \in {"cli", "betd"} /\ InitCommon

Next == CliNext \/ DaemonNext

Spec == Init /\ [][Next]_vars

(***************************************************************************)
(* The two streak helpers called on one result history, as it stands in    *)
(* poly-state.json: streak() by the daemon's status, streakInfo() by       *)
(* staking-policy's planStake, which reads the same file.  The history     *)
(* holds entries whose result is W, L or something else.                   *)
(***************************************************************************)
MaxRun == 4

RunResults == {"W", "L", "X"}
RunEntry(res) == [result |-> res, stake |-> R(1), odds |-> R(2), pnl |-> Zero, bankrollAfter |-> R(100)]
RunHistories == UNION {[1..n -> {RunEntry(res) : res \in RunResults}] : n \in 0..MaxRun}
\* the bare results of a history, as streakInfo's comment expects them
Bare(results) == [i \in 1..Len(results) |-> [str |-> results[i].result]]

StreakCall(results) ==
  /\ prog = "helper"
  /\ last' = [op |-> "streak", args |-> results,
              out |-> [streak |-> streak(results),
                       streakInfo |-> streakInfo(results),
                       onBare |-> streakInfo(Bare(results))]]
  /\ UNCHANGED <<prog, today, s, file, DEFAULT_STATE, inflight>>

HelperNext == \E results \in RunHistories : StreakCall(results)

InitHelper == prog = "helper" /\ InitCommon

SpecHelper == InitHelper /\ [][HelperNext]_vars

(***************************************************************************)
(* Both ledgers taken up when their history is about to reach the length   *)
(* at which the daemon truncates: results one short of HistoryCap or at    *)
(* it, newest first, wins and losses alternating.                          *)
(***************************************************************************)
MaxOver == 2

PastEntry(i) ==
  [result |-> IF i % 2 = 1 THEN "W" ELSE "L", stake |-> R(1), odds |-> R(2),
   pnl |-> IF i % 2 = 1 THEN R(1) ELSE R(-1), bankrollAfter |-> Q(100000 + i, 100)]
PastResults(n) == [i \in 1..n |-> PastEntry(i)]

CliWithHistory(n) ==
  [initState(0, Undefined, Undefined, Undefined)
     EXCEPT !.results = PastResults(n), !.bankroll = PastEntry(1).bankrollAfter,
            !.highWater = PastEntry(n).bankrollAfter]
DaemonWithHistory(n) ==
  [DefaultState
     EXCEPT !.results = PastResults(n), !.bankroll = PastEntry(1).bankrollAfter,
            !.highWater = PastEntry(n).bankrollAfter,
            !.stats = [wins |-> (n + 1) \div 2, losses |-> n \div 2]]

InitHistory ==
  /\ prog \in {"cli", "betd"}
  /\ today = 0
  /\ \E n \in {HistoryCap - 1, HistoryCap} :
       /\ s = CliWithHistory(n)
       /\ file = saveState(DaemonWithHistory(n))
  /\ DEFAULT_STATE = DefaultState
  /\ last = [op |-> "start", out |-> NoOut]
  /\ inflight = {}

\* POST /result on a ledger of any length
ResultPosted(body, ld) ==
  /\ prog = "betd"
  /\ ld.state.stats.wins + ld.state.stats.losses < HistoryCap + MaxOver
  /\ Request("result", ld, doResult(ld.state, body, ld.file))

HistoryNext ==
  \/ CliPlan(Undefined)
  \/ Len(s.results) < HistoryCap + MaxOver /\ CliWin(Undefined)
  \/ Len(s.results) < HistoryCap + MaxOver /\ CliLoss(Undefined)
  \/ CliResume
  \/ DayPasses
  \/ \E body \in Bodies : ResultPosted(body, loadState(file, DEFAULT_STATE))

SpecHistory == InitHistory /\ [][HistoryNext]_vars

(***************************************************************************)
(* The plan / execute / result cycle of both programs on short histories:  *)
(* every request body of the daemon and every odds argument of the         *)
(* command line, with at most MaxSettled results recorded.                 *)
(***************************************************************************)
MaxSettled == 2

PendingNext ==
  \/ \E o \in PlanOdds : CliPlan(o)
  \/ \E o \in ResultOdds : Len(s.results) < MaxSettled /\ CliWin(o)
  \/ \E o \in ResultOdds : Len(s.results) < MaxSettled /\ CliLoss(o)
  \/ CliResume
  \/ \E o \in BodyOdds : PostPlan(o)
  \/ PostExecute
  \/ \E body \in Bodies :
       Len(loadState(file, DEFAULT_STATE).state.results) < MaxSettled /\ PostResult(body)
  \/ \E reason \in PauseReasons : PostPause(reason)
  \/ PostResume

SpecPending == Init /\ [][PendingNext]_vars

(***************************************************************************)
(* The daemon sent result bodies with any numbers for odds and stake:      *)
(* beside the bodies above, odds below 1 and a negative stake, which       *)
(* doResult takes as they come.                                            *)
(***************************************************************************)
OutcomeBodies ==
  Bodies \cup
  { [result |-> "W", odds |-> Q(1, 2), stake |-> Undefined],
    [result |-> "L", odds |-> Undefined, stake |-> R(-50)] }

OutcomePosted(body, ld) ==
  /\ prog = "betd"
  /\ Len(ld.state.results) < MaxSettled
  /\ Request("result", ld, doResult(ld.state, body, ld.file))

OutcomeNext ==
  \/ \E o \in BodyOdds : PostPlan(o)
  \/ \E body \in OutcomeBodies : OutcomePosted(body, loadState(file, DEFAULT_STATE))

InitOutcome == prog = "betd" /\ InitCommon

SpecOutcome == InitOutcome /\ [][OutcomeNext]_vars

(***************************************************************************)
(* The ledger as the running program sees it.                              *)
(***************************************************************************)
Doc == IF file.present THEN file.doc ELSE DEFAULT_STATE
Bankroll == IF prog = "cli" THEN s.bankroll ELSE Doc.bankroll
HighWater == IF prog = "cli" THEN s.highWater ELSE Doc.highWater
Paused == IF prog = "cli" THEN s.paused ELSE Doc.paused
PauseReason == IF prog = "cli" THEN s.pauseReason ELSE Doc.pauseReason

\* the last operation was an applyResult that recorded a result
Recorded ==
  /\ last.op = "result"
  /\ prog = "betd" => "entry" \in DOMAIN last.out
\* the last operation returned a plan that is not a refusal
Planned ==
  /\ last.op = "plan"
  /\ ~("paused" \in DOMAIN last.out /\ last.out.paused)

PlanStep ==
  \/ \E o \in PlanOdds : CliPlan(o)
  \/ \E o \in BodyOdds : PostPlan(o)

(***************************************************************************)
(* C1  Bankroll floor: after every applyResult, of the command-line ledger *)
(* and of the daemon, for any accepted result, odds and stake, the         *)
(* bankroll is >= 0.                                                       *)
(***************************************************************************)
BankrollFloor == last.op = "result" => Ge(Bankroll, Zero)

Drawdown == IF Truthy(HighWater) THEN Div(Sub(HighWater, Bankroll), HighWater) ELSE Zero

DrawdownAutoPause ==
  (Recorded /\ Ge(Drawdown, defaultConfig.drawdownPause))
    => (Paused /\ PauseReason = DrawdownReason(Drawdown))

ZeroPlan(plan) ==
  /\ plan.paused
  /\ "stake" \in DOMAIN plan /\ plan.stake = Zero
  /\ "fraction" \in DOMAIN plan /\ plan.fraction = Zero

PauseShortCircuit ==
  [][(Paused /\ PlanStep) => (ZeroPlan(last'.out) /\ s' = s /\ Doc' = Doc)]_vars

(***************************************************************************)
(* C6  Streak window.  As claimed: winsInWindow is the number of           *)
(* consecutive wins at the front of the history, at most streakWindow of   *)
(* them, stopping at the first loss; pureStreak says it equals the window. *)
(* As amended: winsInWindow is the number of wins among the streakWindow   *)
(* most recent results, wherever the losses are.                           *)
(***************************************************************************)
WinsAmong(results, n) ==
  Cardinality({i \in 1..n : i <= Len(results) /\ results[i].result = "W"})

StreakWindowLeading ==
  (prog = "cli" /\ Planned) =>
    /\ last.out.winsInWindow = LeadingWins(Take(s.results, s.config.window))
    /\ last.out.pureStreak = (last.out.winsInWindow = s.config.window)

StreakWindowCount ==
  (prog = "cli" /\ Planned) =>
    /\ last.out.winsInWindow = WinsAmong(s.results, s.config.window)
    /\ last.out.pureStreak = (last.out.winsInWindow = s.config.window)

\* a plan on a history longer than the window: its newest result is a loss,
\* a win lies inside the window and a win lies beyond it
StreakWindowWitness ==
  /\ prog = "cli" /\ Planned
  /\ Len(s.results) > s.config.window
  /\ s.results[1].result = "L"
  /\ s.results[2].result = "W"
  /\ s.results[Len(s.results)].result = "W"

(***************************************************************************)
(* C7  Sizing never proposes a stake larger than the bankroll: every plan  *)
(* that is not a refusal, of either sizing variant, on a bankroll >= 0,    *)
(* has stake <= bankroll.                                                  *)
(***************************************************************************)
StakeWithinBankroll ==
  (Planned /\ Ge(Bankroll, Zero)) => Le(last.out.stake, Bankroll)

HotColdMultiplier ==
  LET run == streak(Doc.results)
  IN IF run.wins >= CFG.hotStreak.wins THEN CFG.hotStreak.boost
     ELSE IF run.losses >= CFG.coldStreak.losses THEN CFG.coldStreak.cut
     ELSE One

HotColdOnRecorded ==
  (prog = "betd" /\ Planned) => last.out.appliedMultiplier = HotColdMultiplier

(***************************************************************************)
(* C10  Odds resolution in applyResult: the odds recorded in the result    *)
(* entry are the explicit odds if given, else the pending plan's odds if   *)
(* a plan is pending, else the configured default (config.odds; in the     *)
(* daemon the midpoint of the odds band).                                  *)
(***************************************************************************)
ResolvedOdds(explicit, given, pending, dflt) ==
  IF given THEN explicit ELSE IF pending # Null THEN pending.odds ELSE dflt

CliOddsResolved(o) ==
  (/\ CliWin(o) \/ CliLoss(o)
   /\ Len(s'.results) = Len(s.results) + 1)
    => s'.results[1].odds = ResolvedOdds(o, IsFinite(o), s.pendingStake, s.config.odds)

DaemonOddsResolved(body) ==
  (PostResult(body) /\ "entry" \in DOMAIN last'.out)
    => last'.out.entry.odds =
         ToFixed(ResolvedOdds(body.odds, Truthy(body.odds), Doc.planned, Midpoint(Doc.oddsBand)),
                 1000)

OddsResolution ==
  [][/\ \A o \in ResultOdds : CliOddsResolved(o)
     /\ \A body \in Bodies : DaemonOddsResolved(body)]_vars

(***************************************************************************)
(* C11  Stake resolution and pnl in applyResult: the stake is the pending  *)
(* plan's stake if a plan is pending, else the explicit stake if given,    *)
(* else the fallback unit 0.1; pnl = stake * (odds - 1) for W, -stake for  *)
(* L; the new bankroll is max(0, round(bankroll + pnl, 2)).                *)
(***************************************************************************)
ResolvedStake(pending, explicit) ==
  IF pending # Null THEN pending.stake
  ELSE IF Truthy(explicit) THEN explicit
  ELSE Q(1, 10)

ClaimedPnl(result, stake, odds) ==
  IF result = "W" THEN Mul(stake, Sub(odds, One)) ELSE Neg(stake)

\* the command line has no stake argument; the odds are those it recorded
CliStakeAndPnl(o) ==
  (/\ CliWin(o) \/ CliLoss(o)
   /\ Len(s'.results) = Len(s.results) + 1)
    => LET e == s'.results[1]
           stake == ResolvedStake(s.pendingStake, Undefined)
           pnl == ClaimedPnl(e.result, stake, e.odds)
       IN /\ e.stake = stake
          /\ e.pnl = RoundCents(pnl)
          /\ s'.bankroll = Max(Zero, RoundCents(Add(s.bankroll, pnl)))

DaemonStakeAndPnl(body) ==
  (PostResult(body) /\ "entry" \in DOMAIN last'.out)
    => LET e == last'.out.entry
           stake == ResolvedStake(Doc.planned, body.stake)
           pnl == ClaimedPnl(e.result, stake,
                             ResolvedOdds(body.odds, Truthy(body.odds), Doc.planned,
                                          Midpoint(Doc.oddsBand)))
       IN /\ e.stake = ToFixed(stake, 100)
          /\ e.pnl = ToFixed(pnl, 100)
          /\ Doc'.bankroll = Max(Zero, ToFixed(Add(Doc.bankroll, pnl), 100))

StakeAndPnl ==
  [][/\ \A o \in ResultOdds : CliStakeAndPnl(o)
     /\ \A body \in Bodies : DaemonStakeAndPnl(body)]_vars

\* the daemon's part of the claim alone
DaemonStakeAndPnlOnly == [][\A body \in Bodies : DaemonStakeAndPnl(body)]_vars

(***************************************************************************)
(* C12  Invalid result is rejected without mutation: a POST /result whose  *)
(* result, upper-cased, is not W or L returns an error and leaves          *)
(* bankroll, highWater, results, stats, the pending plan and the           *)
(* persisted ledger unchanged; lower-case w / l are recorded as W / L.     *)
(***************************************************************************)
Normalised(str) ==
  CASE str \in {"W", "w"} -> "W" [] str \in {"L", "l"} -> "L" [] OTHER -> "invalid"

InvalidResultRejectedFor(body) ==
  (prog = "betd" /\ last'.op = "result" /\ PostResult(body)) =>
    IF Normalised(body.result) = "invalid"
    THEN /\ DOMAIN last'.out = {"error"}
         /\ Doc' = Doc
         /\ DEFAULT_STATE' = DEFAULT_STATE
    ELSE /\ "entry" \in DOMAIN last'.out
         /\ last'.out.entry.result = Normalised(body.result)
         /\ Doc'.results = <<last'.out.entry>> \o Doc.results

InvalidResultRejected == [][\A body \in Bodies : InvalidResultRejectedFor(body)]_vars

\* an invalid result was refused on a ledger that holds results and a plan
InvalidResultRejectedWitness ==
  /\ prog = "betd"
  /\ last.op = "result" /\ "error" \in DOMAIN last.out
  /\ Doc.results # <<>>
  /\ Doc.planned # Null

(***************************************************************************)
(* C13  Odds-band validation: setOddsBand(min, max) returns an error and   *)
(* leaves oddsBand and the persisted ledger unchanged unless min and max   *)
(* are finite, min >= 1.01 and max > min; with valid bounds it replaces    *)
(* oddsBand with {min, max}, persists it, and changes nothing else.        *)
(***************************************************************************)
ValidBand(min, max) ==
  /\ IsFinite(min) /\ IsFinite(max)
  /\ Ge(min, Q(101, 100))
  /\ Gt(max, min)

OddsBandValidationFor(min, max) ==
  PostOddsBand(min, max) =>
    IF ValidBand(min, max)
    THEN /\ last'.out = [min |-> min, max |-> max]
         /\ file'.present
         /\ file'.doc = [Doc EXCEPT !.oddsBand = [min |-> min, max |-> max]]
    ELSE /\ DOMAIN last'.out = {"error"}
         /\ Doc' = Doc

UncappedStake(st) ==
  Mul(st.bankroll,
      stakeFraction(st.config, aggressionFor(st.config, recentWins(st, st.config.window)),
                    hotBonus(st.config, recentWins(st, st.config.window))))

CapRefusal == [paused |-> TRUE, reason |-> "Daily exposure cap hit."]

\* the plan step from an unpaused ledger st (the day's bucket refreshed) whose
\* uncapped stake exceeds the remaining allowance; `cut` is the stake claimed
CappedTo(st, cut) ==
  Gt(UncappedStake(st), remainingExposure(st)) =>
    IF Gt(remainingExposure(st), Zero)
    THEN ~last'.out.paused /\ last'.out.stake = cut
    ELSE last'.out = CapRefusal /\ ~s'.paused

NextDayNotRefused == s.exposureDayAnchor # today => ~last'.out.paused

CappedStakeExact ==
  [][\A o \in PlanOdds :
       (CliPlan(o) /\ ~s.paused) =>
         /\ CappedTo(ensureDayExposureBucket(s, today),
                     remainingExposure(ensureDayExposureBucket(s, today)))
         /\ NextDayNotRefused]_vars

CappedStakeRounded ==
  [][\A o \in PlanOdds :
       (CliPlan(o) /\ ~s.paused) =>
         /\ CappedTo(ensureDayExposureBucket(s, today),
                     RoundCents(remainingExposure(ensureDayExposureBucket(s, today))))
         /\ NextDayNotRefused]_vars

\* a plan was cut to a remaining allowance that is not a whole number of cents
CappedStakeWitness ==
  /\ prog = "cli" /\ Planned
  /\ s.pendingStake = last.out
  /\ Gt(UncappedStake(s), remainingExposure(s))
  /\ remainingExposure(s) # RoundCents(remainingExposure(s))
  /\ last.out.stake = RoundCents(remainingExposure(s))

\* a plan was refused because the day's allowance is used up
CapRefusalReached == prog = "cli" /\ last.op = "plan" /\ last.out = CapRefusal

(***************************************************************************)
(* C15  Exposure rollover: the first access of an unpaused ledger (a plan  *)
(* or a result, also a result that consumes a plan made on an earlier day) *)
(* on a day other than exposureDayAnchor sets the anchor to today and      *)
(* restarts exposureToday from 0; an access on the anchor's day does not   *)
(* reset it.  So after a result exposureToday is the sum of the stakes     *)
(* applied on the anchor's day.                                            *)
(***************************************************************************)
ExposureBefore == IF s.exposureDayAnchor # today THEN Zero ELSE s.exposureToday

RolloverOnPlan(o) ==
  (CliPlan(o) /\ ~s.paused) =>
    /\ s'.exposureDayAnchor = today
    /\ s'.exposureToday = ExposureBefore

RolloverOnResult(o) ==
  (/\ CliWin(o) \/ CliLoss(o)
   /\ Len(s'.results) = Len(s.results) + 1) =>
    /\ s'.exposureDayAnchor = today
    /\ s'.exposureToday = Add(ExposureBefore, s'.results[1].stake)

ExposureRollover ==
  [][/\ \A o \in PlanOdds : RolloverOnPlan(o)
     /\ \A o \in ResultOdds : RolloverOnResult(o)]_vars

\* the plans' part of the claim alone
ExposureRolloverOnPlans == [][\A o \in PlanOdds : RolloverOnPlan(o)]_vars

(***************************************************************************)
(* C16  Streak-table sizing rule: a plan of an unpaused ledger that the    *)
(* daily cap does not cut has stake = round(bankroll * f, 2), with         *)
(* f = clamp(baseFraction * aggressionByWins[winsInWindow] * hotBonus,     *)
(* minFraction, maxFraction) and hotBonus = hotBonusOnPureStreak exactly   *)
(* when winsInWindow = streakWindow, else 1.  A fresh ledger gives         *)
(* winsInWindow 0, multiplier 0.5 and fraction 0.035.                      *)
(***************************************************************************)
ClaimedMultiplier(c, wins) ==
  Mul(c.aggression[wins], IF wins = c.window THEN c.hotBonusOnPureStreak ELSE One)

ClaimedFraction(c, wins) ==
  LET raw == Mul(c.baseKelly, ClaimedMultiplier(c, wins))
  IN IF Lt(raw, c.minFraction) THEN c.minFraction
     ELSE IF Gt(raw, c.maxFraction) THEN c.maxFraction
     ELSE raw

SizedByRule(st, plan) ==
  ~Gt(Mul(st.bankroll, ClaimedFraction(st.config, plan.winsInWindow)), remainingExposure(st)) =>
    /\ plan.stake = RoundCents(Mul(st.bankroll, ClaimedFraction(st.config, plan.winsInWindow)))
    /\ st.results = <<>> =>
          /\ plan.winsInWindow = 0
          /\ plan.appliedMultiplier = Q(1, 2)
          /\ st.bankroll = R(1000) => plan.fraction = Q(35, 1000)

SizingRule ==
  [][\A o \in PlanOdds :
       (CliPlan(o) /\ ~s.paused /\ ~last'.out.paused) =>
         SizedByRule(ensureDayExposureBucket(s, today), last'.out)]_vars

\* a plan on a pure streak, its fraction held at maxFraction, not cut by the cap
SizingRuleWitness ==
  /\ prog = "cli" /\ Planned
  /\ s.pendingStake = last.out
  /\ last.out.pureStreak
  /\ Gt(Mul(s.config.baseKelly, ClaimedMultiplier(s.config, s.config.window)), s.config.maxFraction)
  /\ last.out.stake = RoundCents(Mul(s.bankroll, s.config.maxFraction))
  /\ Lt(last.out.stake, remainingExposure(s))

(***************************************************************************)
(* C17  Request serialisation: also when the handling of two requests      *)
(* overlaps, the persisted ledger reflects every operation: no step drops  *)
(* a persisted result, and only a pause / resume changes paused, only an   *)
(* odds-band request changes oddsBand.                                     *)
(***************************************************************************)
IsSuffix(old, new) ==
  /\ Len(old) <= Len(new)
  /\ SubSeq(new, Len(new) - Len(old) + 1, Len(new)) = old

NoLostUpdate ==
  [][prog = "betd" =>
       /\ IsSuffix(Doc.results, Doc'.results)
       /\ last'.op \notin {"pause", "resume"} => Doc'.paused = Doc.paused
       /\ last'.op # "oddsband" => Doc'.oddsBand = Doc.oddsBand]_vars

\* C18: loadLedger never fails the caller: with the state file missing or
\* unparsable every loadState yields a default ledger, neither raising nor
\* returning nothing, so no command ends in the parse exception or in the
\* "No state" refusal.
LoadFailed == last.out = Thrown("SyntaxError") \/ last.out = NoStateError
LoadNeverFails == ~LoadFailed

\* C18, the daemon alone: a request that finds no readable file is answered
\* as the same request on the default ledger.
AnsweredOnDefaults ==
  \E req \in FaultRequests :
    /\ last'.op = req.op
    /\ last'.out = handle(req, DEFAULT_STATE, file).out
DaemonLoadNeverFails ==
  [][(prog = "betd" /\ ~file.present /\ last' # last) => AnsweredOnDefaults /\ ~LoadFailed']_vars

\* C19: best-effort persistence: a failing durable write is not raised, so no
\* command ends in the write's exception.
BestEffortPersistence == last.out # Thrown("EACCES")

\* C19, the daemon alone: whether or not its writes go through, a request is
\* answered with the result of the change made to the loaded ledger.
AnsweredFromMemory ==
  \E req \in FaultRequests :
    /\ last'.op = req.op
    /\ last'.out = handle(req, loadState(file, DEFAULT_STATE).state, file).out
DaemonBestEffort ==
  [][(prog = "betd" /\ last' # last) => AnsweredFromMemory /\ BestEffortPersistence']_vars

\* C20: pending-plan protocol.  An applied result leaves no pending plan.  An
\* execute step answers with an order exactly when the ledger is not paused
\* and holds a plan, answers "Nothing planned" when it is not paused and
\* holds none, and leaves the ledger as it was.  A plan comes to be held only
\* through a plan request on a ledger that is not paused, and such a request
\* always stores one; so a held plan was stored since the last applied result.
PendingPlan == IF prog = "cli" THEN s.pendingStake ELSE Doc.planned
NothingPlanned == [error |-> "Nothing planned. Use /plan first."]
ResultStep ==
  /\ last'.op = "result"
  /\ IF prog = "cli" THEN \E o \in ResultOdds : CliWin(o) \/ CliLoss(o)
     ELSE "entry" \in DOMAIN last'.out /\ \E body \in Bodies : PostResult(body)
ResultClearsPlan == ResultStep => PendingPlan' = Null
ExecuteAnswers ==
  (prog = "betd" /\ last'.op = "execute" /\ PostExecute) =>
    /\ Doc' = Doc
    /\ "order" \in DOMAIN last'.out <=> (~Doc.paused /\ Doc.planned # Null)
    /\ (~Doc.paused /\ Doc.planned = Null) => last'.out = NothingPlanned
    /\ "order" \in DOMAIN last'.out => last'.out.planned = Doc.planned
PlanStoredByPlan ==
  /\ (prog = "betd" /\ Doc'.planned # Null /\ Doc'.planned # Doc.planned) =>
        (~Doc.paused /\ \E o \in BodyOdds : PostPlan(o))
  /\ \A o \in BodyOdds :
       (prog = "betd" /\ last'.op = "plan" /\ ~Doc.paused /\ PostPlan(o)) => Doc'.planned # Null
NothingPlannedReached ==
  /\ prog = "betd"
  /\ last = [op |-> "execute", out |-> NothingPlanned]
  /\ Len(Doc.results) > 0

\* C21: the result history is bounded and most-recent-first: its length never
\* exceeds the cap of 5000, and whenever it changes the new history is one
\* new entry followed by the earlier entries in their order, cut to the cap
\* (the oldest dropped); an accepted POST /result puts the entry it returns
\* at the front.
Results == IF prog = "cli" THEN s.results ELSE Doc.results
HistoryBounded == Len(Results) <= HistoryCap
FrontInsertion ==
  /\ Results' # Results =>
        /\ Len(Results') >= 1
        /\ Results' = Take(<<Results'[1]>> \o Results, HistoryCap)
  /\ (prog = "betd" /\ last'.op = "result" /\ "entry" \in DOMAIN last'.out /\ last' # last) =>
        Results' = Take(<<last'.out.entry>> \o Results, HistoryCap)
ResultHistory == []HistoryBounded /\ [][FrontInsertion]_vars

\* C21, the daemon alone
DaemonResultHistory ==
  /\ [](prog = "betd" => HistoryBounded)
  /\ [][prog = "betd" => FrontInsertion]_vars
\* C21, the command line without the cap: one entry at the front, the rest kept
CliFrontInsertion ==
  [][(prog = "cli" /\ Results' # Results) => Results' = <<Results'[1]>> \o Results]_vars
\* the daemon has dropped the oldest entry of a full history
OldestDropped ==
  /\ prog = "betd"
  /\ last.op = "result"
  /\ Len(Results) = HistoryCap
  /\ Results[HistoryCap] = PastEntry(HistoryCap - 2)

\* C22: pause and resume are idempotent and framed.  A pause sets paused and
\* the reason (the given one, or "Paused by user" when none is given), and on
\* a ledger already paused with that reason changes nothing.  A resume unsets
\* paused and clears the reason, on a ledger already resumed changes nothing,
\* and leaves every other field of the ledger (bankroll, highWater,
\* exposureToday, results, stats, oddsBand, the pending plan) as it was.
SameExcept(a, b, keys) ==
  /\ DOMAIN a = DOMAIN b
  /\ \A k \in DOMAIN a \ keys : a[k] = b[k]
GivenReason(r) == IF r = "" THEN "Paused by user" ELSE r
PauseSets(r) ==
  (prog = "betd" /\ last'.op = "pause" /\ PostPause(r)) =>
    /\ Doc'.paused
    /\ Doc'.pauseReason = GivenReason(r)
    /\ last'.out = [paused |-> TRUE, reason |-> GivenReason(r)]
    /\ (Doc.paused /\ Doc.pauseReason = GivenReason(r)) => Doc' = Doc
DaemonResumeClears ==
  (prog = "betd" /\ last'.op = "resume" /\ PostResume) =>
    /\ ~Doc'.paused
    /\ Doc'.pauseReason = ""
    /\ SameExcept(Doc, Doc', {"paused", "pauseReason"})
    /\ (~Doc.paused /\ Doc.pauseReason = "") => Doc' = Doc
CliResumeClears ==
  (prog = "cli" /\ last'.op = "resume" /\ CliResume) =>
    /\ ~s'.paused
    /\ s'.pauseReason = "null"
    /\ SameExcept(s, s', {"paused", "pauseReason"})
    /\ (~s.paused /\ s.pauseReason = "null") => s' = s
PauseResumeIdempotent ==
  [][(\A r \in PauseReasons : PauseSets(r)) /\ DaemonResumeClears /\ CliResumeClears]_vars

\* a paused ledger holding a plan and a result has been resumed
PauseResumeWitness ==
  /\ prog = "betd"
  /\ last.op = "resume"
  /\ Doc.planned # Null
  /\ Len(Doc.results) > 0
\* the command-line ledger has been resumed after a drawdown pause
CliResumeReached ==
  /\ prog = "cli"
  /\ last.op = "resume"
  /\ Len(s.results) > 0
  /\ Gt(s.highWater, s.bankroll)

\* C23: planning is side-effect-free on the durable ledger.  A plan made on a
\* ledger that is not paused changes, in the command-line ledger, nothing but
\* exposureToday, exposureDayAnchor and the pending plan, and in the daemon's
\* ledger nothing but the stored plan: bankroll, highWater, paused,
\* pauseReason, the result history and the stats stay as they were.
CliPlanFrame ==
  (prog = "cli" /\ last'.op = "plan" /\ today' = today /\ ~s.paused) =>
    SameExcept(s, s', {"exposureToday", "exposureDayAnchor", "pendingStake"})
DaemonPlanFrame ==
  (prog = "betd" /\ last'.op = "plan" /\ ~Doc.paused) => SameExcept(Doc, Doc', {"planned"})
PlanningFrame == [][CliPlanFrame /\ DaemonPlanFrame]_vars

\* a plan has rolled the exposure bucket over on a command-line ledger that
\* holds results and is below its high-water mark
PlanningFrameWitness ==
  /\ prog = "cli"
  /\ last.op = "plan"
  /\ today > 0
  /\ s.exposureDayAnchor = today
  /\ s.exposureToday = Zero
  /\ s.pendingStake # Null
  /\ Len(s.results) > 0
  /\ Gt(s.highWater, s.bankroll)
\* the daemon has stored a plan on a ledger that holds results
DaemonPlanStored ==
  /\ prog = "betd"
  /\ last.op = "plan"
  /\ Doc.planned # Null
  /\ Len(Doc.results) > 0

\* C24: the streak helpers return the length of the run of identical results
\* at the front of the result history, as wins or as losses, a result of the
\* other kind or an unrecognised one ending the run; at most one of wins and
\* losses is non-zero; and after a result r is applied the streak of kind r
\* is the previous one plus 1 and the other kind is 0.
RECURSIVE FrontRun(_, _)
FrontRun(results, kind) ==
  IF results # <<>> /\ Head(results).result = kind
  THEN 1 + FrontRun(Tail(results), kind)
  ELSE 0
IsFrontRun(out, results) ==
  /\ out.wins = FrontRun(results, "W")
  /\ out.losses = FrontRun(results, "L")
  /\ out.wins = 0 \/ out.losses = 0
AfterResult(out, results) ==
  results # <<>> =>
    LET r == Head(results).result
        before == [wins |-> FrontRun(Tail(results), "W"), losses |-> FrontRun(Tail(results), "L")]
    IN /\ r = "W" => out.wins = before.wins + 1 /\ out.losses = 0
       /\ r = "L" => out.losses = before.losses + 1 /\ out.wins = 0
StreakHelper ==
  last.op = "streak" =>
    /\ IsFrontRun(last.out.streak, last.args) /\ AfterResult(last.out.streak, last.args)
    /\ IsFrontRun(last.out.streakInfo, last.args) /\ AfterResult(last.out.streakInfo, last.args)

\* C24, the daemon's streak() alone
DaemonStreakHelper ==
  last.op = "streak" =>
    IsFrontRun(last.out.streak, last.args) /\ AfterResult(last.out.streak, last.args)
\* C24, streakInfo() on the bare result strings its comment expects
StreakInfoOnBare ==
  last.op = "streak" =>
    IsFrontRun(last.out.onBare, last.args) /\ AfterResult(last.out.onBare, last.args)
\* a run of two wins ended by an unrecognised result has been counted
StreakRunReached ==
  /\ last.op = "streak"
  /\ Len(last.args) = 3
  /\ last.args[3].result = "X"
  /\ last.out.streak = [wins |-> 2, losses |-> 0]

\* C25: outcome direction: for every result the daemon accepts, whatever the
\* stake and odds of the request body, a W never decreases the bankroll and
\* an L never increases it.
OutcomeStep ==
  (prog = "betd" /\ last'.op = "result" /\ "entry" \in DOMAIN last'.out) =>
    /\ last'.out.entry.result = "W" => Ge(Doc'.bankroll, Doc.bankroll)
    /\ last'.out.entry.result = "L" => Le(Doc'.bankroll, Doc.bankroll)
OutcomeDirection == [][OutcomeStep]_vars

HalfCent == Q(1, 200)
Pristine(doc) ==
  /\ doc.bankroll = R(100)
  /\ doc.highWater = R(100)
  /\ ~doc.paused
  /\ doc.results = <<>>
  /\ doc.stats = [wins |-> 0, losses |-> 0]
DefaultsPristine ==
  (prog = "betd" /\ ~file.present) => Pristine(loadState(file, DEFAULT_STATE).state)

\* C27 for the fields that are not shared objects
DefaultScalarsPristine ==
  (prog = "betd" /\ ~file.present) =>
    LET doc == loadState(file, DEFAULT_STATE).state
    IN doc.bankroll = R(100) /\ doc.highWater = R(100) /\ ~doc.paused /\ doc.planned = Null

\* C28: a paused command-line ledger ignores results: a win or loss on a
\* paused ledger leaves bankroll, highWater, exposureToday, results,
\* pendingStake, paused and pauseReason as they were; and a win or loss with
\* no plan pending and the daily cap exhausted records nothing and leaves
\* bankroll, highWater and results as they were.
Kept(keys) == \A k \in keys : s'[k] = s[k]
CapExhausted == Le(remainingExposure(ensureDayExposureBucket(s, today)), Zero)
PausedResultIgnored ==
  (prog = "cli" /\ last'.op = "result" /\ today' = today /\ s.paused) =>
    Kept({"bankroll", "highWater", "exposureToday", "results", "pendingStake",
          "paused", "pauseReason"})
ExhaustedResultIgnored ==
  (prog = "cli" /\ last'.op = "result" /\ today' = today /\ ~s.paused
     /\ s.pendingStake = Null /\ CapExhausted) =>
    Kept({"bankroll", "highWater", "results"})
PausedIgnoresResults == [][PausedResultIgnored /\ ExhaustedResultIgnored]_vars

\* C28, the paused half alone
PausedIgnoresResultsOnly == [][PausedResultIgnored]_vars

\* C29: odds-band invariant: in every daemon state reached from the default
\* ledger, rejected setOddsBand calls included, oddsBand.min >= 1.01 and
\* oddsBand.max > oddsBand.min; and a plan made without explicit odds is made
\* and stored at the midpoint (min + max) / 2 of the band of that moment.
BandValid ==
  prog = "betd" => Ge(Doc.oddsBand.min, Q(101, 100)) /\ Gt(Doc.oddsBand.max, Doc.oddsBand.min)
PlanAtMidpoint ==
  (prog = "betd" /\ last'.op = "plan" /\ ~Doc.paused /\ PostPlan(Undefined)) =>
    /\ last'.out.odds = Div(Add(Doc.oddsBand.min, Doc.oddsBand.max), R(2))
    /\ Doc'.planned.odds = last'.out.odds
    /\ Doc'.oddsBand = Doc.oddsBand
OddsBandInvariant == []BandValid /\ [][PlanAtMidpoint]_vars

\* a plan has been made at the midpoint of a band that was set by a request
OddsBandInvariantWitness ==
  /\ prog = "betd"
  /\ last.op = "plan"
  /\ Doc.oddsBand # DefaultState.oddsBand
  /\ Doc.planned # Null
  /\ Doc.planned.odds = Div(Add(Doc.oddsBand.min, Doc.oddsBand.max), R(2))

====
